---- MODULE Spec2Model ----
(***************************************************************************)
(* Model of chrisaguilar/simple-ts-setup:                                  *)
(*   - the client utilities sum and shift (src/src/client/sum.ts),         *)
(*   - the Client Bootstrap (src/src/client/index.ts),                     *)
(*   - the Page Server (src/unnamed/part_000, the express application).    *)
(*                                                                         *)
(* JavaScript numbers are IEEE-754 doubles.  The values that occur here    *)
(* are integers, so a number is modelled exactly as a sign and a           *)
(* magnitude, the magnitude being its binary digits, least significant     *)
(* first, without leading zeros.  Addition is the exact integer sum        *)
(* rounded to Prec significant bits, ties to even, as IEEE-754 addition    *)
(* rounds.  Strings are sequences of 16-bit code units.                    *)
(***************************************************************************)
EXTENDS Integers, Sequences, FiniteSets, TLC

VARIABLES
    args,          \* sum: the rest arguments of the call under check
    sumDone,       \* sum: sum(...args) has returned
    sumResult,     \* sum: its return value
    revDone,       \* sum: sum(...reverse(args)) has returned
    revResult,     \* sum: its return value
    str,           \* shift: the argument of the call under check
    shiftDone,     \* shift: shift(str) has returned
    shiftResult,   \* shift: its return value
    pc,            \* Client Bootstrap: the next statement of index.ts
    shiftElement,  \* Client Bootstrap: the detached <p> of line 6
    sumElement,    \* Client Bootstrap: the detached <p> of line 10
    appChildren,   \* Client Bootstrap: the children of the mount element #app
    loaded,        \* Client Bootstrap: the children of #app when the script starts
    files,         \* Page Server: the files under the static directory
    reqs           \* Page Server: the requests in flight, by connection

sumVars == <<args, sumDone, sumResult, revDone, revResult>>
shiftVars == <<str, shiftDone, shiftResult>>
clientVars == <<pc, shiftElement, sumElement, appChildren, loaded>>
serverVars == <<files, reqs>>
vars == <<sumVars, shiftVars, clientVars, serverVars>>

----------------------------------------------------------------------------
(* Numbers: the IEEE-754 double arithmetic behind `number`.                *)

\* Significand width of a double.
Prec == 53

\* The one element of a singleton.  {e(v) : v \in {x}} evaluates x once and
\* names its value v; TheOne takes the result out again.
TheOne(S) == CHOOSE x \in S : TRUE

Zeros(n) == [i \in 1..n |-> 0]

\* Digit i of a magnitude, 0 beyond its length.
BitAt(m, i) == IF i <= Len(m) THEN m[i] ELSE 0

\* Drop the leading (most significant, last) zero digits.
Trim(m) ==
    LET ones == {i \in 1..Len(m) : m[i] = 1}
    IN  IF ones = {} THEN <<>>
        ELSE SubSeq(m, 1, CHOOSE i \in ones : \A j \in ones : j <= i)

\* The binary digits of a natural number.
RECURSIVE MagOf(_)
MagOf(n) == IF n = 0 THEN <<>> ELSE <<n % 2>> \o MagOf(n \div 2)

\* Exact sum of two magnitudes.  The carry into digit i: some lower digit j
\* generates one (both digits 1) and every digit between passes it on (not
\* both digits 0).
CarryInto(a, b, i) ==
    \E j \in 1..(i - 1) :
        /\ BitAt(a, j) = 1 /\ BitAt(b, j) = 1
        /\ \A k \in (j + 1)..(i - 1) : BitAt(a, k) + BitAt(b, k) >= 1

AddMag(a, b) ==
    LET n == (IF Len(a) > Len(b) THEN Len(a) ELSE Len(b)) + 1
    IN  Trim([i \in 1..n |->
                (BitAt(a, i) + BitAt(b, i)
                    + (IF CarryInto(a, b, i) THEN 1 ELSE 0)) % 2])

\* Exact difference a - b of two magnitudes, a >= b.  The borrow from digit
\* i: some lower digit j generates one (0 minus 1) and no digit between
\* absorbs it (1 minus 0).
BorrowFrom(a, b, i) ==
    \E j \in 1..(i - 1) :
        /\ BitAt(a, j) = 0 /\ BitAt(b, j) = 1
        /\ \A k \in (j + 1)..(i - 1) : BitAt(a, k) <= BitAt(b, k)

SubMag(a, b) ==
    Trim([i \in 1..Len(a) |->
            (a[i] - BitAt(b, i) - (IF BorrowFrom(a, b, i) THEN 1 ELSE 0)) % 2])

\* a < b on magnitudes.
LessMag(a, b) ==
    \/ Len(a) < Len(b)
    \/ /\ Len(a) = Len(b)
       /\ \E i \in 1..Len(a) :
            a[i] < b[i] /\ \A j \in (i + 1)..Len(a) : a[j] = b[j]

\* Round a magnitude to Prec significant bits, to nearest, ties to even.
RoundMag(m) ==
    IF Len(m) <= Prec THEN m
    ELSE LET e      == Len(m) - Prec
             kept   == SubSeq(m, e + 1, Len(m))
             guard  == m[e]
             sticky == \E i \in 1..(e - 1) : m[i] = 1
             up     == guard = 1 /\ (sticky \/ kept[1] = 1)
         IN  Zeros(e) \o (IF up THEN AddMag(kept, <<1>>) ELSE kept)

Num(negative, m) == [neg |-> negative /\ m # <<>>, mag |-> m]

Zero == Num(FALSE, <<>>)

\* An integer as a number.
Int2Num(n) == IF n < 0 THEN Num(TRUE, MagOf(-n)) ELSE Num(FALSE, MagOf(n))

\* 2^e as a number.
Pow2(e) == Num(FALSE, Zeros(e) \o <<1>>)

\* The exact integer sum of two numbers.
AddExact(x, y) ==
    IF x.neg = y.neg THEN Num(x.neg, AddMag(x.mag, y.mag))
    ELSE IF LessMag(x.mag, y.mag) THEN Num(y.neg, SubMag(y.mag, x.mag))
    ELSE Num(x.neg, SubMag(x.mag, y.mag))

\* Whether an integer is a double.
Representable(x) == RoundMag(x.mag) = x.mag

\* a + b of JavaScript on two doubles holding integers.
Add(x, y) == LET s == AddExact(x, y) IN Num(s.neg, RoundMag(s.mag))

----------------------------------------------------------------------------
(* src/src/client/sum.ts                                                    *)

\* Array.prototype.reduce(callback, initialValue): the callback is applied
\* to the accumulator and each element, from index i on, in index order.
RECURSIVE Reduce(_, _, _)
Reduce(arr, i, acc) ==
    IF i > Len(arr) THEN acc
    ELSE TheOne({Reduce(arr, i + 1, next) : next \in {Add(acc, arr[i])}})

\* reduceRight in place of reduce: the fold runs from the last element.
sumFromRight(xs) == Reduce([i \in 1..Len(xs) |-> xs[Len(xs) + 1 - i]], 1, Zero)

\* The fold starts one element late.
sumSkipsFirst(xs) == Reduce(xs, 2, Zero)

sum(xs) == Reduce(xs, 1, Zero)

(* The call under check: sum(...args) and sum(...args.reverse()).          *)

\* The longest argument list tried.
MaxLen == 3

\* 2^53 - 1 (Number.MAX_SAFE_INTEGER), the double with every bit set.
MaxSafe == Num(FALSE, [i \in 1..Prec |-> 1])

\* Integers around the edge of the exact range as well as small ones.
SumValues == {Zero, Int2Num(1), Int2Num(-1), Int2Num(2), MaxSafe, Pow2(Prec)}

SeqsUpTo(S, n) == UNION {[1..k -> S] : k \in 0..n}

Reverse(xs) == [i \in 1..Len(xs) |-> xs[Len(xs) + 1 - i]]

InitSum ==
    /\ args \in SeqsUpTo(SumValues, MaxLen)
    /\ sumDone = FALSE
    /\ sumResult = Zero
    /\ revDone = FALSE
    /\ revResult = Zero

CallSum ==
    /\ ~sumDone
    /\ sumDone' = TRUE
    /\ sumResult' = sum(args)
    /\ UNCHANGED <<args, revDone, revResult>>

CallSumReversed ==
    /\ ~revDone
    /\ revDone' = TRUE
    /\ revResult' = sum(Reverse(args))
    /\ UNCHANGED <<args, sumDone, sumResult>>

----------------------------------------------------------------------------
(* shift of src/src/client/sum.ts, on strings as sequences of code units.  *)

CodeUnits == 65536
HighMin == 55296
LowMin == 56320
LowMax == 57343

IsHigh(u) == HighMin <= u /\ u < LowMin
IsLow(u) == LowMin <= u /\ u <= LowMax

\* [...str]: the string iterator yields one element per code point, a
\* surrogate pair as one element of two code units, a lone surrogate alone.
RECURSIVE StringIterator(_)
StringIterator(s) ==
    IF s = <<>> THEN <<>>
    ELSE IF Len(s) >= 2 /\ IsHigh(s[1]) /\ IsLow(s[2])
         THEN <<SubSeq(s, 1, 2)>> \o StringIterator(SubSeq(s, 3, Len(s)))
         ELSE <<SubSeq(s, 1, 1)>> \o StringIterator(Tail(s))

\* e.charCodeAt(i): the code unit at (zero-based) index i.
charCodeAt(e, i) == e[i + 1]

\* String.fromCharCode(n): the one code unit ToUint16(n).
fromCharCode(n) == <<n % CodeUnits>>

\* Array.prototype.join(""): the elements concatenated.
RECURSIVE join(_)
join(parts) == IF parts = <<>> THEN <<>> ELSE Head(parts) \o join(Tail(parts))

\* The callback of line 6.
ShiftChar(e) == fromCharCode(charCodeAt(e, 0) + 1)

shift(s) ==
    LET elems == StringIterator(s)
    IN  join([i \in 1..Len(elems) |-> ShiftChar(elems[i])])

\* The code point of one element of the string iterator.
CodePointOf(e) ==
    IF Len(e) = 2 THEN CodeUnits + (e[1] - HighMin) * 1024 + (e[2] - LowMin)
    ELSE e[1]

\* The code points of a string, as iteration sees them.
CodePoints(s) ==
    LET elems == StringIterator(s)
    IN  [i \in 1..Len(elems) |-> CodePointOf(elems[i])]

\* The longest string tried, in code units.
MaxStrLen == 3

\* 'a', U+D7FF, a high surrogate, the last high surrogate, the first low
\* surrogate, a low surrogate, U+FFFF.
ShiftUnits == {97, 55295, 55357, 56319, 56320, 56832, 65535}

InitShift ==
    /\ str \in SeqsUpTo(ShiftUnits, MaxStrLen)
    /\ shiftDone = FALSE
    /\ shiftResult = <<>>

CallShift ==
    /\ ~shiftDone
    /\ shiftDone' = TRUE
    /\ shiftResult' = shift(str)
    /\ UNCHANGED str

----------------------------------------------------------------------------
(* src/src/client/index.ts: the Client Bootstrap, one action per statement. *)

\* A numeric literal: its decimal digits, read exactly, rounded to a double.
Mul10(m) == Trim(AddMag(<<0>> \o m, <<0, 0, 0>> \o m))

RECURSIVE DecMag(_)
DecMag(ds) ==
    IF ds = <<>> THEN <<>>
    ELSE TheOne({AddMag(Mul10(front), MagOf(ds[Len(ds)])) :
                    front \in {DecMag(SubSeq(ds, 1, Len(ds) - 1))}})

NumberLiteral(ds) == Num(FALSE, RoundMag(DecMag(ds)))

\* "Hello, World!"
shiftText == <<72, 101, 108, 108, 111, 44, 32, 87, 111, 114, 108, 100, 33>>

numArr ==
    <<Int2Num(12), Int2Num(24), Int2Num(5), Int2Num(7), Int2Num(8),
      Int2Num(9), Int2Num(5), Int2Num(4), Int2Num(345), Int2Num(6),
      Int2Num(7), Int2Num(2), Int2Num(1),
      NumberLiteral(<<8, 9, 3, 8, 1, 7, 5, 9, 8, 2, 3, 7, 4, 9, 1, 8, 3, 2, 4, 7>>)>>

\* The template literals of lines 7 and 11, as their parts in order; the
\* text of the element is the parts' string values concatenated
\* (<<numArr, " + ">> is numArr.join(" + ")).
ShiftMessage == <<shiftText, " shifts to ", shift(shiftText)>>
SumMessage == <<"The sum of \"", <<numArr, " + ">>, "\" is ", sum(numArr)>>

NoElement == [id |-> "none", tag |-> "none", text |-> <<>>]

\* $("<p>"): a new, detached paragraph element.
NewParagraph(name) == [id |-> name, tag |-> "p", text |-> <<>>]

\* .prepend in place of .append: el becomes the first child.
prepend(children, el) ==
    <<el>> \o SelectSeq(children, LAMBDA c : c.id # el.id)

\* jQuery .append(el) on the one element $("#app") selects: el becomes the
\* last child; an element that is already a child is moved, not copied.
append(children, el) ==
    Append(SelectSeq(children, LAMBDA c : c.id # el.id), el)

\* The most children #app holds when the script starts.
MaxKids == 2

ExistingNodes ==
    { [id |-> "n1", tag |-> "p", text |-> <<"x">>],
      [id |-> "n2", tag |-> "div", text |-> <<>>],
      [id |-> "n3", tag |-> "span", text |-> <<"y">>],
      [id |-> "n4", tag |-> "p", text |-> <<>>] }

InitClient ==
    /\ pc = "L6"
    /\ shiftElement = NoElement
    /\ sumElement = NoElement
    /\ loaded \in {c \in SeqsUpTo(ExistingNodes, MaxKids) :
                      \A i, j \in 1..Len(c) : i # j => c[i] # c[j]}
    /\ appChildren = loaded

Line6 ==
    /\ pc = "L6"
    /\ shiftElement' = NewParagraph("shiftElement")
    /\ pc' = "L7"
    /\ UNCHANGED <<sumElement, appChildren, loaded>>

Line7 ==
    /\ pc = "L7"
    /\ shiftElement' = [shiftElement EXCEPT !.text = ShiftMessage]
    /\ pc' = "L10"
    /\ UNCHANGED <<sumElement, appChildren, loaded>>

Line10 ==
    /\ pc = "L10"
    /\ sumElement' = NewParagraph("sumElement")
    /\ pc' = "L11"
    /\ UNCHANGED <<shiftElement, appChildren, loaded>>

Line11 ==
    /\ pc = "L11"
    /\ sumElement' = [sumElement EXCEPT !.text = SumMessage]
    /\ pc' = "L13"
    /\ UNCHANGED <<shiftElement, appChildren, loaded>>

Line13 ==
    /\ pc = "L13"
    /\ appChildren' = append(appChildren, shiftElement)
    /\ pc' = "L14"
    /\ UNCHANGED <<shiftElement, sumElement, loaded>>

Line14 ==
    /\ pc = "L14"
    /\ appChildren' = append(appChildren, sumElement)
    /\ pc' = "done"
    /\ UNCHANGED <<shiftElement, sumElement, loaded>>

----------------------------------------------------------------------------
(* src/unnamed/part_000: the Page Server.                                   *)
(*                                                                          *)
(* A request is its method and its path, the path split at "/" (a last     *)
(* segment "" is a trailing slash); request headers are not modelled.  A   *)
(* request walks the application's stack in registration order: morgan     *)
(* (line 13), the static mount (line 15), the route of line 17, and, when  *)
(* nothing answered, express's final handler.  Files are named by their    *)
(* path below the directory public.                                        *)

Methods == {"GET", "HEAD", "POST"}

Paths ==
    { <<>>,
      <<"anything", "at", "all">>,
      <<"public">>,
      <<"public", "js">>,
      <<"public", "js", "">>,
      <<"public", "js", "main.js">>,
      <<"public", "views", "index.html">>,
      <<"public", "missing.png">>,
      <<"public", ".env">> }

\* What the client build writes (webpack.client.config.js).
BuildOutput == { <<"js", "main.js">>, <<"views", "index.html">> }

\* The static directory with and without a dotfile beside the build output.
Trees == { BuildOutput, BuildOutput \cup { <<".env">> } }

\* File names that begin with a dot.
DotNames == {".env"}

\* Requests served at once.
MaxReq == 2

NoResponse == [status |-> 0, type |-> "", body |-> <<>>, by |-> ""]

\* res.send and its kin leave out the body of the answer to a HEAD.
BodyFor(method, body) == IF method = "HEAD" THEN <<>> ELSE body

\* The layer of app.use("/public", ...) takes a path whose first segment
\* is the mount path.
UnderMount(path) == Len(path) >= 1 /\ path[1] = "public"

IsFile(tree, rel) == rel \in tree

IsDirectory(tree, rel) ==
    \E f \in tree : Len(f) > Len(rel) /\ SubSeq(f, 1, Len(rel)) = rel

MimeType(name) ==
    CASE name = "main.js" -> "application/javascript"
      [] name = "index.html" -> "text/html"
      [] OTHER -> "application/octet-stream"

SendFile(method, rel) ==
    [status |-> 200, type |-> MimeType(rel[Len(rel)]),
     body |-> BodyFor(method, <<"file">> \o rel), by |-> "static"]

\* express.static(root) with its default options (fallthrough, redirect,
\* index "index.html", dotfiles ignored), on the path below the mount.
\* NoResponse stands for next(): the request falls through.
serveStatic(tree, method, rel) ==
    IF method \notin {"GET", "HEAD"} THEN NoResponse
    ELSE IF rel # <<>> /\ rel[Len(rel)] \in DotNames THEN NoResponse
    ELSE IF rel # <<>> /\ rel[Len(rel)] = ""
         THEN LET index == SubSeq(rel, 1, Len(rel) - 1) \o <<"index.html">>
              IN  IF IsFile(tree, index) THEN SendFile(method, index)
                  ELSE NoResponse
    ELSE IF IsFile(tree, rel) THEN SendFile(method, rel)
    ELSE IF IsDirectory(tree, rel)
         THEN [status |-> 301, type |-> "text/html",
               body |-> BodyFor(method, <<"Redirecting to", "public">> \o rel \o <<"">>),
               by |-> "static"]
    ELSE NoResponse

\* A view's file below public: the views directory is public/views and
\* the default engine extension is "html".
ViewFile(view) ==
    IF view = "index" THEN <<"views", "index.html">> ELSE <<"views", view>>

\* res.render(view) through ejs.renderFile.
render(tree, method, view) ==
    IF IsFile(tree, ViewFile(view))
    THEN [status |-> 200, type |-> "text/html",
          body |-> BodyFor(method, <<"rendered", view>>), by |-> "route"]
    ELSE [status |-> 500, type |-> "text/html",
          body |-> BodyFor(method, <<"Error", "Failed to lookup view", view>>),
          by |-> "error"]

\* app.all in place of app.get: the route takes every method.
AllRouteHandles(method) == TRUE

\* app.get(path, ...) handles GET and, there being no HEAD route, HEAD.
GetRouteHandles(method) == method \in {"GET", "HEAD"}

\* A handler that renders the view the path names.
CatchAllByPath(tree, req) ==
    render(tree, req.method, IF req.path = <<>> THEN "index" ELSE req.path[1])

\* A handler that picks the view from what else is in flight.
CatchAllShared(tree, req) ==
    render(tree, req.method, IF Cardinality(reqs) > 1 THEN "busy" ELSE "index")

\* The handler of line 17: req is ignored.
CatchAllHandler(tree, req) == render(tree, req.method, "index")

\* express's final handler: nothing answered the request.
finalhandler(req) ==
    [status |-> 404, type |-> "text/html",
     body |-> BodyFor(req.method, <<"Cannot", req.method>> \o req.path),
     by |-> "final"]

\* The route registered before the static mount.
StackRouteFirst == <<"morgan", "route", "static", "final">>

\* The application's stack in registration order, the final handler last.
Stack == <<"morgan", "static", "route", "final">>

NextLayer(stage) ==
    Stack[(CHOOSE i \in 1..Len(Stack) : Stack[i] = stage) + 1]

\* next(): on to the layer after the one the request is at.
next(req) == [req EXCEPT !.at = NextLayer(req.at)]

\* The response is sent.
Answer(req, res) == [req EXCEPT !.at = "done", !.res = res]

\* req.url below the mount path.
BelowMount(path) == SubSeq(path, 2, Len(path))

InitServer ==
    /\ files \in Trees
    /\ reqs = {}

\* A request arrives on the listening port (line 22) and enters the stack.
Request(m, p) ==
    /\ Cardinality(reqs) < MaxReq
    /\ reqs' = reqs \cup
            {[method |-> m, path |-> p, at |-> Stack[1], res |-> NoResponse]}
    /\ UNCHANGED files

\* Line 13: morgan notes the request and calls next().
Morgan(r) ==
    /\ r.at = "morgan"
    /\ reqs' = (reqs \ {r}) \cup {next(r)}
    /\ UNCHANGED files

\* Line 15.
Static(r) ==
    /\ r.at = "static"
    /\ LET res == serveStatic(files, r.method, BelowMount(r.path))
       IN  reqs' = (reqs \ {r}) \cup
                {IF ~UnderMount(r.path) \/ res = NoResponse
                 THEN next(r) ELSE Answer(r, res)}
    /\ UNCHANGED files

\* Lines 17-19.
CatchAll(r) ==
    /\ r.at = "route"
    /\ reqs' = (reqs \ {r}) \cup
            {IF GetRouteHandles(r.method)
             THEN Answer(r, CatchAllHandler(files, r)) ELSE next(r)}
    /\ UNCHANGED files

FinalHandler(r) ==
    /\ r.at = "final"
    /\ reqs' = (reqs \ {r}) \cup {Answer(r, finalhandler(r))}
    /\ UNCHANGED files

\* The response is out and the request is over.
Finish(r) ==
    /\ r.at = "done"
    /\ reqs' = reqs \ {r}
    /\ UNCHANGED files

----------------------------------------------------------------------------
(* Specifications.  Each component runs alone; the others stand still.      *)

SumIdle ==
    /\ args = <<>> /\ sumDone = TRUE /\ sumResult = Zero
    /\ revDone = TRUE /\ revResult = Zero
ShiftIdle == str = <<>> /\ shiftDone = TRUE /\ shiftResult = <<>>
ClientIdle ==
    /\ pc = "off" /\ shiftElement = NoElement /\ sumElement = NoElement
    /\ appChildren = <<>> /\ loaded = <<>>
ServerIdle == files = BuildOutput /\ reqs = {}

ServerOnly == UNCHANGED <<sumVars, shiftVars, clientVars>>
SumOnly == UNCHANGED <<shiftVars, clientVars, serverVars>>
ShiftOnly == UNCHANGED <<sumVars, clientVars, serverVars>>
ClientOnly == UNCHANGED <<sumVars, shiftVars, serverVars>>

\* The Page Server.
Init == InitServer /\ SumIdle /\ ShiftIdle /\ ClientIdle

Next ==
    \/ \E m \in Methods, p \in Paths : Request(m, p) /\ ServerOnly
    \/ \E r \in reqs : Morgan(r) /\ ServerOnly
    \/ \E r \in reqs : Static(r) /\ ServerOnly
    \/ \E r \in reqs : CatchAll(r) /\ ServerOnly
    \/ \E r \in reqs : FinalHandler(r) /\ ServerOnly
    \/ \E r \in reqs : Finish(r) /\ ServerOnly

Spec == Init /\ [][Next]_vars

\* Calls of sum.
NextSum ==
    \/ CallSum /\ SumOnly
    \/ CallSumReversed /\ SumOnly

InitSumOnly == InitSum /\ ShiftIdle /\ ClientIdle /\ ServerIdle

SpecSum == InitSumOnly /\ [][NextSum]_vars

\* Calls of shift.
NextShift == CallShift /\ ShiftOnly

InitShiftOnly == InitShift /\ SumIdle /\ ClientIdle /\ ServerIdle

SpecShift == InitShiftOnly /\ [][NextShift]_vars

\* The Client Bootstrap.
NextClient ==
    \/ Line6 /\ ClientOnly
    \/ Line7 /\ ClientOnly
    \/ Line10 /\ ClientOnly
    \/ Line11 /\ ClientOnly
    \/ Line13 /\ ClientOnly
    \/ Line14 /\ ClientOnly

InitClientOnly == InitClient /\ SumIdle /\ ShiftIdle /\ ServerIdle

SpecClient == InitClientOnly /\ [][NextClient]_vars

----------------------------------------------------------------------------
(* Properties.                                                              *)

Done(r) == r.at = "done"

\* The answer of the catch-all route to a GET.
RenderedIndex ==
    [status |-> 200, type |-> "text/html", body |-> <<"rendered", "index">>,
     by |-> "route"]

NamesNothing(tree, rel) ==
    /\ rel # <<>> /\ rel[Len(rel)] # ""
    /\ ~IsFile(tree, rel) /\ ~IsDirectory(tree, rel)

\* C2: every finished GET request under /public whose path names nothing
\* that exists in the static directory is answered 404.
C2_MissingStaticFileIs404 ==
    \A r \in reqs :
        Done(r) /\ r.method = "GET" /\ UnderMount(r.path)
            /\ NamesNothing(files, BelowMount(r.path))
        => r.res.status = 404

Alone(tree, m, p) ==
    LET req == [method |-> m, path |-> p]
        res == serveStatic(tree, m, BelowMount(p))
    IN  IF UnderMount(p) /\ res # NoResponse THEN res
        ELSE IF GetRouteHandles(m) THEN CatchAllHandler(tree, req)
        ELSE finalhandler(req)

\* C10: whatever else is in flight, a finished request carries the answer
\* its method and path give with the fixed template and file tree, so two
\* finished requests with the same method and path carry the same answer.
C10_AnswerDependsOnRequestOnly ==
    /\ \A r \in reqs : Done(r) => r.res = Alone(files, r.method, r.path)
    /\ \A r1, r2 \in reqs :
            Done(r1) /\ Done(r2) /\ r1.method = r2.method /\ r1.path = r2.path
            => r1.res = r2.res

C10_Witness ==
    \E r1, r2 \in reqs :
        /\ Done(r1) /\ r1.res.by = "route"
        /\ ~Done(r2) /\ r2.at = "route" /\ r2.path # r1.path

\* The left fold of + over xs from 0, by its defining equations.
RECURSIVE FoldLeft(_)
FoldLeft(xs) ==
    IF xs = <<>> THEN Zero
    ELSE TheOne({Add(front, xs[Len(xs)]) :
                    front \in {FoldLeft(SubSeq(xs, 1, Len(xs) - 1))}})

\* C5: sum(xs) is the left-to-right fold of + over xs from 0; sum() is 0 and
\* sum(a) is a.
C5_SumIsLeftFold ==
    sumDone =>
        /\ sumResult = FoldLeft(args)
        /\ args = <<>> => sumResult = Zero
        /\ Len(args) = 1 => sumResult = args[1]

C5_Witness ==
    /\ sumDone
    /\ args = <<Pow2(Prec), Int2Num(1), Int2Num(1)>>
    /\ sumResult = Pow2(Prec)

\* C6 as stated: sum(xs) = sum(reverse(xs)).
C6_SumOfReverse ==
    sumDone /\ revDone => sumResult = revResult

\* The exact integer sum of xs.
RECURSIVE ExactSum(_)
ExactSum(xs) ==
    IF xs = <<>> THEN Zero
    ELSE TheOne({AddExact(front, xs[Len(xs)]) :
                    front \in {ExactSum(SubSeq(xs, 1, Len(xs) - 1))}})

\* No addition of the fold over xs rounds: every partial sum is a double.
NoRounding(xs) ==
    \A k \in 1..Len(xs) : Representable(ExactSum(SubSeq(xs, 1, k)))

\* C6 as amended: sum(xs) = sum(reverse(xs)) for every sequence xs whose
\* partial sums, taken in either order, are all exactly representable.
C6_SumOfReverseWhenExact ==
    sumDone /\ revDone /\ NoRounding(args) /\ NoRounding(Reverse(args))
        => sumResult = revResult

C6_Witness ==
    /\ sumDone /\ revDone
    /\ args = <<MaxSafe, Int2Num(1), Int2Num(-1)>>
    /\ NoRounding(args) /\ NoRounding(Reverse(args))
    /\ sumResult = MaxSafe

\* C7: every character of shift(s) has the code point of the character at
\* the same position of s, plus one.
C7_ShiftAddsOneToEveryCodePoint ==
    shiftDone =>
        /\ Len(CodePoints(shiftResult)) = Len(CodePoints(str))
        /\ \A i \in 1..Len(CodePoints(str)) :
                i <= Len(CodePoints(shiftResult)) =>
                    CodePoints(shiftResult)[i] = CodePoints(str)[i] + 1

\* No surrogate stands alone: the string is well-formed UTF-16.
WellFormed(s) ==
    \A i \in 1..Len(StringIterator(s)) :
        Len(StringIterator(s)[i]) = 1 =>
            ~IsHigh(StringIterator(s)[i][1]) /\ ~IsLow(StringIterator(s)[i][1])

\* C8: shift(s) has as many code points as s, and shift("") is "".  Stated
\* here for the well-formed strings only, which the claim includes.
C8_ShiftKeepsLength ==
    shiftDone /\ WellFormed(str) =>
        /\ Len(CodePoints(shiftResult)) = Len(CodePoints(str))
        /\ str = <<>> => shiftResult = <<>>

\* C9: the bootstrap appends exactly two paragraphs to #app, the shift
\* paragraph and then the sum paragraph, both texts set before either is
\* appended; when it has run they are the last two children, in that order.
C9_BootstrapAppendsInOrder ==
    /\ pc = "done" =>
        /\ appChildren = loaded \o <<shiftElement, sumElement>>
        /\ shiftElement = [id |-> "shiftElement", tag |-> "p", text |-> ShiftMessage]
        /\ sumElement = [id |-> "sumElement", tag |-> "p", text |-> SumMessage]
    /\ pc = "L14" => appChildren = loaded \o <<shiftElement>>
    /\ pc \in {"L6", "L7", "L10", "L11", "L13"} => appChildren = loaded
    /\ appChildren # loaded =>
        shiftElement.text = ShiftMessage /\ sumElement.text = SumMessage

C9_Witness ==
    /\ pc = "done" /\ Len(loaded) = 2
    /\ appChildren[Len(appChildren)] = sumElement
    /\ appChildren[Len(appChildren) - 1] = shiftElement

====
